---- MODULE Spec2Model ----
(***************************************************************************)
(* Enrollment engine of campus_virtual: inscribir_estudiante (admission),  *)
(* validar_correlativas (prerequisite check) and Inscripcion.dar_baja      *)
(* (withdrawal), over the tables Comision, Inscripcion and MateriaAprobada.*)
(*                                                                         *)
(* The database is modelled at READ COMMITTED with row locks: a            *)
(* transaction.atomic block buffers its writes until it commits, a         *)
(* select_for_update holds the row until the transaction ends, and a       *)
(* statement outside a transaction (dar_baja) commits on its own.          *)
(*                                                                         *)
(* The table EstudianteCarrera is written through the add form of the      *)
(* admin site: EstudianteCarrera.clean, then the INSERT.                   *)
(***************************************************************************)
EXTENDS Integers, Sequences, FiniteSets, TLC

VARIABLES
    comision,        \* table Comision: row -> [capacidad_maxima, capacidad_actual, activa]
    inscripciones,   \* table Inscripcion: <<estudiante_carrera, comision>> -> rows, in insertion order
    aprobadas,       \* table MateriaAprobada: set of <<estudiante_carrera, materia>>
    correlativas,    \* M2M CarreraMateria.correlativas: carrera_materia -> set of carrera_materia
    bloqueo,         \* row lock of each Comision: the call holding it, or NADIE
    adm,             \* the inscribir_estudiante calls (one per caller)
    baj,             \* the Inscripcion instances in memory on which dar_baja is called
    reloj,           \* timezone.now(), as a counter
    entorno,         \* the callers: who calls, with which arguments, how often, overlapping or not
    estudiante_carreras,  \* table EstudianteCarrera of the students managed in the admin site
    alta             \* the add-form requests of EstudianteCarreraAdmin (one per operator)

vars == <<comision, inscripciones, aprobadas, correlativas, bloqueo, adm, baj, reloj, entorno,
          estudiante_carreras, alta>>

----------------------------------------------------------------------------
(* Bounds of the model *)

\* largest capacidad_maxima a section is created with
MaxCapacidad == 2
\* inscribir_estudiante calls explored in a run
MaxLlamadas == 3
\* Inscripcion instances loaded in a run with overlapping calls
MaxCargas == 2
\* Inscripcion instances loaded in a run of one-at-a-time calls
MaxCargasSec == 1
\* writes of the collaborators (MateriaAprobada, correlativas) explored
MaxAdmin == 2
\* EstudianteCarrera add-form requests explored
MaxAltas == 3

----------------------------------------------------------------------------
(* Reference data (fixtures in the shape of tests.py setUp) *)

NADIE == "nadie"
NULL == "null"
\* fecha_baja of a row never withdrawn (null=True); the clock starts after it
SinFecha == 0

Llamadores == {"p1", "p2"}
Instancias == {"w1", "w2"}

\* EstudianteCarrera rows: e1, e2, e3 study k1; e4 studies k2
EstudianteCarreras == {"e1", "e2", "e3", "e4"}
CarreraDeEstudiante(e) == IF e = "e4" THEN "k2" ELSE "k1"

\* CarreraMateria rows: cmX = (k1, X), cmY = (k1, Y), cmZ = (k1, Z)
CarreraDeCM(cm) == "k1"
MateriaDeCM(cm) == IF cm = "cmX" THEN "X" ELSE IF cm = "cmY" THEN "Y" ELSE "Z"
CarreraMaterias == {"cmX", "cmY", "cmZ"}
Materias == {"X", "Y", "Z"}

\* Comision rows: A, B offer X in term t1; C offers X in term t2; D is inactive
Comisiones == {"A", "B", "C", "D"}
CarreraMateriaDe(c) == "cmX"
CuatrimestreDe(c) == IF c = "C" THEN "t2" ELSE "t1"
MateriaDe(c) == MateriaDeCM(CarreraMateriaDe(c))

\* the arguments the callers pass: <<estudiante_carrera, its activa flag in
\* memory, comision_id>>
Entradas ==
    {<<"e1", TRUE, "A">>, <<"e1", TRUE, "B">>, <<"e1", TRUE, "C">>,
     <<"e2", TRUE, "A">>,
     <<"e1", FALSE, "A">>, <<"e4", FALSE, "D">>,
     <<"e1", TRUE, "D">>, <<"e4", TRUE, "D">>, <<"e4", TRUE, "A">>}

\* the <<estudiante_carrera, comision>> pairs an Inscripcion may link
Pares == EstudianteCarreras \X Comisiones

----------------------------------------------------------------------------
(* Rejections raised by inscribir_estudiante (the ValidationError messages) *)

OK == "OK"
InactiveCareer == "El estudiante no tiene una carrera activa."
InactiveSection == "La comision no esta activa."
WrongCareer == "La comision no pertenece a la carrera del estudiante."
NoCapacity == "La comision no tiene cupo disponible."
AlreadyEnrolledInSection == "El estudiante ya esta inscripto en esta comision."
AlreadyEnrolledInCourseThisTerm == "El estudiante ya esta inscripto a esta materia en el cuatrimestre."
CourseAlreadyApproved == "El estudiante ya tiene aprobada esta materia."
UnmetPrerequisites == "No cumple correlativas"
GenericFailure ==
    "No se pudo completar la inscripcion. Verifique que haya cupo y que no este inscripto."

----------------------------------------------------------------------------
(* Queries *)

\* variant: a full section still counts as having a seat
tiene_cupo_inclusive(com) == com.capacidad_actual <= com.capacidad_maxima

\* Comision.tiene_cupo on an in-memory Comision object
tiene_cupo(com) == com.capacidad_actual < com.capacidad_maxima

\* all rows of Inscripcion, as <<estudiante_carrera, comision, index>>
Filas == {<<par[1], par[2], i>> : par \in Pares, i \in 1..2}

FilaExiste(e, c, i) == i \in DOMAIN inscripciones[<<e, c>>]

\* Inscripcion.objects.filter(estudiante_carrera=e, comision=c, activa=True).exists()
ExisteActivaEnComision(e, c) ==
    \E i \in DOMAIN inscripciones[<<e, c>>] : inscripciones[<<e, c>>][i].activa

\* variant: the filter has no activa=True, withdrawn rows count
ExisteEnMateria(e, c) ==
    \E c2 \in Comisiones :
        /\ CuatrimestreDe(c2) = CuatrimestreDe(c)
        /\ MateriaDe(c2) = MateriaDe(c)
        /\ inscripciones[<<e, c2>>] # <<>>

\* Inscripcion.objects.filter(estudiante_carrera=e, comision__cuatrimestre=...,
\*     comision__carrera_materia__materia=..., activa=True).exists()
ExisteActivaEnMateria(e, c) ==
    \E c2 \in Comisiones :
        /\ CuatrimestreDe(c2) = CuatrimestreDe(c)
        /\ MateriaDe(c2) = MateriaDe(c)
        /\ ExisteActivaEnComision(e, c2)

estudiante_aprobo_materia(e, m) == <<e, m>> \in aprobadas

\* variant: the collection stops at the first unmet correlativa
FaltantesPrimera(e, cm) ==
    LET sin == {MateriaDeCM(corr) : corr \in {k \in correlativas[cm] :
                                     ~estudiante_aprobo_materia(e, MateriaDeCM(k))}}
    IN  IF sin = {} THEN {} ELSE {CHOOSE m \in sin : TRUE}

\* variant: every correlativa is collected, approved or not
FaltantesSinAprobadas(e, cm) == {MateriaDeCM(corr) : corr \in correlativas[cm]}

\* the names collected by validar_correlativas
Faltantes(e, cm) ==
    {MateriaDeCM(corr) : corr \in {k \in correlativas[cm] :
                                     ~estudiante_aprobo_materia(e, MateriaDeCM(k))}}

\* number of active Inscripcion rows referencing a section
Activas(c) ==
    Cardinality({f \in Filas : /\ f[2] = c
                               /\ FilaExiste(f[1], f[2], f[3])
                               /\ inscripciones[<<f[1], f[2]>>][f[3]].activa})

----------------------------------------------------------------------------
(* Storage constraints of Inscripcion (Meta.constraints) *)

\* variant: the index covers active rows only
ViolaUnicaComisionActiva(e, c) == ExisteActivaEnComision(e, c)

\* unique_inscripcion_estudiante_comision: one row per pair, active or not
ViolaUnicaComision(e, c) == Len(inscripciones[<<e, c>>]) > 0

\* unique_inscripcion_activa_por_materia_cuatrimestre: partial unique index on
\* the denormalised columns; rows whose columns are NULL never collide
ViolaUnicaMateria(e, fila) ==
    /\ fila.activa
    /\ fila.materia # NULL
    /\ fila.cuatrimestre # NULL
    /\ \E c2 \in Comisiones : \E i \in DOMAIN inscripciones[<<e, c2>>] :
          LET o == inscripciones[<<e, c2>>][i]
          IN  o.activa /\ o.materia = fila.materia /\ o.cuatrimestre = fila.cuatrimestre

\* the words of the IntegrityError the storage raises for each constraint
MensajeUnicaComision == {"duplicate", "unique", "estudiante", "comision"}
MensajeUnicaMateria == {"duplicate", "unique", "activa", "materia", "cuatrimestre"}

\* variant: the message is not inspected
TraducirGenerico(msg) == GenericFailure

\* except IntegrityError: the rejection chosen from the message
TraducirIntegrityError(msg) ==
    IF "unique" \in msg \/ "duplicate" \in msg \/ "estudiante" \in msg
    THEN AlreadyEnrolledInSection
    ELSE IF "capacidad" \in msg \/ "check" \in msg
         THEN NoCapacity
         ELSE GenericFailure

\* the row Inscripcion.objects.create(estudiante_carrera, comision, activa=True)
\* inserts: materia and cuatrimestre are not passed and clean() is not run
FilaNueva(c) ==
    [activa |-> TRUE, fecha_baja |-> SinFecha, materia |-> NULL, cuatrimestre |-> NULL]

----------------------------------------------------------------------------
(* Initial state *)

\* a Comision object not yet read
SinLeer == [capacidad_maxima |-> 0, capacidad_actual |-> 0, activa |-> FALSE]

\* "pre", "serie" and "previa" are history, kept in the runs whose properties
\* read it: the number of the call, what held when it was made, and whether it
\* repeats the caller's previous call; no step of the program reads them
SinPre ==
    [libres |-> 0, otra |-> FALSE, apto |-> FALSE, baja |-> FALSE, previas |-> FALSE,
     con |-> {}]

AdmIdle ==
    [pc |-> "idle", ec |-> NADIE, ec_activa |-> FALSE, com |-> NADIE,
     leida |-> SinLeer, res |-> NULL, faltantes |-> {}, serie |-> 0, pre |-> SinPre,
     previa |-> FALSE]

BajIdle ==
    [pc |-> "idle", ec |-> NADIE, com |-> NADIE, idx |-> 0, activa |-> FALSE,
     en_cache |-> FALSE, cache |-> 0, efectiva |-> FALSE]

\* Estudiante rows managed through the admin site, the Carrera rows and the
\* operators of the site
Estudiantes == {"s1", "s2"}
Carreras == {"k1", "k2"}
Operadores == {"g1", "g2"}

\* state of the pair (estudiante, carrera) in EstudianteCarrera: no row, a row
\* with activa = True, a row with activa = False
SinFila == "sin fila"
Activa == "activa"
Historica == "historica"

\* outcomes of an add-form request
CareerAlreadyActive == "El estudiante ya tiene una carrera activa."
DuplicateStudentCareer == "unique_estudiante_carrera"

AltaIdle == [pc |-> "idle", est |-> NADIE, car |-> NADIE, activa |-> FALSE, res |-> NULL]

\* the tables as tests.py setUp leaves them, for sections of any capacity
TablasVacias ==
    /\ \E capA \in 1..MaxCapacidad :
          comision =
            [c \in Comisiones |->
                [capacidad_maxima |-> IF c = "A" THEN capA
                                      ELSE IF c = "B" THEN MaxCapacidad ELSE 1,
                 capacidad_actual |-> 0,
                 activa |-> (c # "D")]]
    /\ inscripciones = [par \in Pares |-> <<>>]
    /\ bloqueo = [c \in Comisiones |-> NADIE]
    /\ adm = [p \in Llamadores |-> AdmIdle]
    /\ baj = [w \in Instancias |-> BajIdle]
    /\ reloj = SinFecha + 1
    /\ estudiante_carreras = [sk \in Estudiantes \X Carreras |-> SinFila]
    /\ alta = [g \in Operadores |-> AltaIdle]

\* the arguments passed while withdrawals overlap the calls
EntradasBaja ==
    {<<"e1", TRUE, "A">>, <<"e2", TRUE, "A">>, <<"e3", TRUE, "A">>, <<"e4", TRUE, "A">>}

\* the arguments passed by overlapping callers
EntradasAdm == EntradasBaja \cup {<<"e1", TRUE, "B">>}

\* one caller of inscribir_estudiante, overlapping dar_baja on two instances
Init ==
    /\ TablasVacias
    /\ aprobadas = {}
    /\ correlativas = [cm \in CarreraMaterias |-> {}]
    /\ entorno = [secuencial |-> FALSE, historia |-> FALSE,
                  inscribir |-> MaxLlamadas, cargar |-> MaxCargas, admin |-> 0,
                  llamadores |-> {"p1"}, instancias |-> Instancias,
                  entradas |-> EntradasBaja, altas |-> 0]

\* the arguments passed for two students of the carrera of section A
EntradasDos == {<<"e1", TRUE, "A">>, <<"e2", TRUE, "A">>}

\* one caller of inscribir_estudiante for two students, overlapping dar_baja on
\* two instances
InitBaja ==
    /\ TablasVacias
    /\ aprobadas = {}
    /\ correlativas = [cm \in CarreraMaterias |-> {}]
    /\ entorno = [secuencial |-> FALSE, historia |-> FALSE,
                  inscribir |-> MaxLlamadas, cargar |-> MaxCargas, admin |-> 0,
                  llamadores |-> {"p1"}, instancias |-> Instancias,
                  entradas |-> EntradasDos, altas |-> 0]

\* overlapping inscribir_estudiante calls of two callers, no withdrawal
InitAdm ==
    /\ TablasVacias
    /\ aprobadas = {}
    /\ correlativas = [cm \in CarreraMaterias |-> {}]
    /\ entorno = [secuencial |-> FALSE, historia |-> TRUE,
                  inscribir |-> MaxLlamadas, cargar |-> 0, admin |-> 0,
                  llamadores |-> Llamadores, instancias |-> {},
                  entradas |-> EntradasAdm, altas |-> 0]

\* one call at a time: one caller, one instance, and the collaborators' writes
InitSec ==
    /\ TablasVacias
    /\ aprobadas = {}
    /\ correlativas = [cm \in CarreraMaterias |-> {}]
    /\ entorno = [secuencial |-> TRUE, historia |-> TRUE,
                  inscribir |-> MaxLlamadas, cargar |-> MaxCargasSec, admin |-> MaxAdmin,
                  llamadores |-> {"p1"}, instancias |-> {"w1"},
                  entradas |-> Entradas, altas |-> 0]

\* the arguments passed when the approvals and the correlativas vary
EntradasCorr == {<<"e1", TRUE, "A">>, <<"e2", TRUE, "A">>}

\* one call at a time, over every table of MateriaAprobada rows of e1 and e2
\* and every set of correlativas of cmX among cmY and cmZ
InitCorr ==
    /\ TablasVacias
    /\ aprobadas \in SUBSET ({"e1", "e2"} \X Materias)
    /\ \E previas \in SUBSET {"cmY", "cmZ"} :
          correlativas = [cm \in CarreraMaterias |-> IF cm = "cmX" THEN previas ELSE {}]
    /\ entorno = [secuencial |-> TRUE, historia |-> TRUE,
                  inscribir |-> MaxLlamadas, cargar |-> 0, admin |-> 0,
                  llamadores |-> {"p1"}, instancias |-> {},
                  entradas |-> EntradasCorr, altas |-> 0]

\* two operators of the admin site adding EstudianteCarrera rows
InitCarrera ==
    /\ TablasVacias
    /\ aprobadas = {}
    /\ correlativas = [cm \in CarreraMaterias |-> {}]
    /\ entorno = [secuencial |-> FALSE, historia |-> FALSE,
                  inscribir |-> 0, cargar |-> 0, admin |-> 0,
                  llamadores |-> {}, instancias |-> {},
                  entradas |-> {}, altas |-> MaxAltas]

\* no call is running
NadieEnCurso ==
    /\ \A p \in Llamadores : adm[p].pc \in {"idle", "done"}
    /\ \A w \in Instancias : baj[w].pc \in {"idle", "una", "dos"}

PuedeEmpezar(quien) ==
    /\ quien \in entorno.llamadores \cup entorno.instancias
    /\ entorno.secuencial => NadieEnCurso

----------------------------------------------------------------------------
(* The preconditions of an admission, as section 4.1 of the specification   *)
(* lists them, read from the tables                                         *)

\* the student holds an active Inscripcion in another section of the same
\* materia and cuatrimestre
ActivaEnOtra(e, c) ==
    \E c2 \in Comisiones \ {c} :
        /\ CuatrimestreDe(c2) = CuatrimestreDe(c)
        /\ MateriaDe(c2) = MateriaDe(c)
        /\ ExisteActivaEnComision(e, c2)

\* the rejection of the first precondition that fails, or OK
PrimerRechazo(e, act, c) ==
    IF ~act THEN InactiveCareer
    ELSE IF ~comision[c].activa THEN InactiveSection
    ELSE IF CarreraDeCM(CarreraMateriaDe(c)) # CarreraDeEstudiante(e) THEN WrongCareer
    ELSE IF comision[c].capacidad_actual >= comision[c].capacidad_maxima THEN NoCapacity
    ELSE IF ExisteActivaEnComision(e, c) THEN AlreadyEnrolledInSection
    ELSE IF ActivaEnOtra(e, c) THEN AlreadyEnrolledInCourseThisTerm
    ELSE IF <<e, MateriaDe(c)>> \in aprobadas THEN CourseAlreadyApproved
    ELSE IF \E k \in correlativas[CarreraMateriaDe(c)] : <<e, MateriaDeCM(k)>> \notin aprobadas
         THEN UnmetPrerequisites
    ELSE OK

\* every precondition other than the free seat holds, and no Inscripcion row
\* links the student to the section yet
Apto(e, act, c) ==
    /\ act
    /\ comision[c].activa
    /\ CarreraDeCM(CarreraMateriaDe(c)) = CarreraDeEstudiante(e)
    /\ inscripciones[<<e, c>>] = <<>>
    /\ ~ActivaEnOtra(e, c)
    /\ <<e, MateriaDe(c)>> \notin aprobadas
    /\ \A k \in correlativas[CarreraMateriaDe(c)] : <<e, MateriaDeCM(k)>> \in aprobadas

\* the callers inside a call
EnCurso == {r \in Llamadores : adm[r].pc \notin {"idle", "done"}}

\* what holds when a call is made (history): the free seats of the section,
\* whether the student is active in another section of the materia, whether this
\* call and the calls in flight are eligible, whether a withdrawn row links the
\* student to the section, whether the materia has correlativas, and which calls
\* are in flight
Pre(e, act, c) ==
    [libres |-> comision[c].capacidad_maxima - comision[c].capacidad_actual,
     otra |-> ActivaEnOtra(e, c),
     apto |-> /\ Apto(e, act, c)
              /\ \A r \in EnCurso : Apto(adm[r].ec, adm[r].ec_activa, adm[r].com),
     baja |-> inscripciones[<<e, c>>] # <<>> /\ ~ExisteActivaEnComision(e, c),
     previas |-> correlativas[CarreraMateriaDe(c)] # {},
     con |-> {adm[r].serie : r \in EnCurso}]

\* the call repeats the caller's previous call, which was made for an eligible
\* student when the section was empty and was admitted, and the row it added is
\* still the only active one of the section (history)
Repetida(p, e, act, c) ==
    /\ adm[p].pc = "done"
    /\ adm[p].res = OK
    /\ adm[p].ec = e /\ adm[p].com = c
    /\ adm[p].ec_activa /\ act
    /\ adm[p].pre.apto
    /\ adm[p].pre.libres = comision[c].capacidad_maxima
    /\ comision[c].capacidad_actual = 1
    /\ ExisteActivaEnComision(e, c)

----------------------------------------------------------------------------
(* inscribir_estudiante *)

\* variant: the exception leaves an occupancy increment behind
RechazarSinDeshacer(p, motivo, nombres) ==
    /\ adm' = [adm EXCEPT ![p].pc = "done", ![p].res = motivo, ![p].faltantes = nombres,
                          ![p].leida = SinLeer]
    /\ bloqueo' = [bloqueo EXCEPT ![adm[p].com] = NADIE]
    /\ comision' = [comision EXCEPT ![adm[p].com].capacidad_actual = @ + 1]
    /\ UNCHANGED inscripciones

\* variant: the exception leaves the row lock held
RechazarSinSoltar(p, motivo, nombres) ==
    /\ adm' = [adm EXCEPT ![p].pc = "done", ![p].res = motivo, ![p].faltantes = nombres,
                          ![p].leida = SinLeer]
    /\ UNCHANGED <<comision, inscripciones, bloqueo>>

\* the exception leaves the atomic block: nothing buffered is written and the
\* row lock is released
Rechazar(p, motivo, nombres) ==
    /\ adm' = [adm EXCEPT ![p].pc = "done", ![p].res = motivo, ![p].faltantes = nombres,
                          ![p].leida = SinLeer]
    /\ bloqueo' = [bloqueo EXCEPT ![adm[p].com] = NADIE]
    /\ UNCHANGED <<comision, inscripciones>>

\* a caller invokes inscribir_estudiante(estudiante_carrera, comision_id)
AdmitLlamar(p, e, act, c) ==
    /\ adm[p].pc \in {"idle", "done"}
    /\ entorno.inscribir > 0
    /\ PuedeEmpezar(p)
    /\ entorno' = [entorno EXCEPT !.inscribir = @ - 1]
    /\ adm' = [adm EXCEPT ![p] = [AdmIdle EXCEPT !.pc = "lock", !.ec = e,
                                                 !.ec_activa = act, !.com = c,
                                                 !.serie = IF entorno.historia
                                                           THEN entorno.inscribir ELSE 0,
                                                 !.pre = IF entorno.historia
                                                         THEN Pre(e, act, c) ELSE SinPre,
                                                 !.previa = entorno.historia
                                                            /\ Repetida(p, e, act, c)]]
    /\ UNCHANGED <<comision, inscripciones, aprobadas, correlativas, bloqueo, baj, reloj,
                 estudiante_carreras, alta>>

\* variant: the section is read without select_for_update
AdmitLeerSinBloqueo(p) ==
    /\ adm[p].pc = "lock"
    /\ adm' = [adm EXCEPT ![p].pc = "validar", ![p].leida = comision[adm[p].com]]
    /\ UNCHANGED <<comision, inscripciones, aprobadas, correlativas, bloqueo, baj, reloj, entorno,
                 estudiante_carreras, alta>>

\* variant: one lock for the whole table of sections
AdmitBloquearGlobal(p) ==
    /\ adm[p].pc = "lock"
    /\ \A c \in Comisiones : bloqueo[c] = NADIE
    /\ bloqueo' = [bloqueo EXCEPT ![adm[p].com] = p]
    /\ adm' = [adm EXCEPT ![p].pc = "validar", ![p].leida = comision[adm[p].com]]
    /\ UNCHANGED <<comision, inscripciones, aprobadas, correlativas, baj, reloj, entorno,
                 estudiante_carreras, alta>>

\* Comision.objects.select_for_update().get(id=comision_id)
AdmitBloquear(p) ==
    /\ adm[p].pc = "lock"
    /\ bloqueo[adm[p].com] = NADIE
    /\ bloqueo' = [bloqueo EXCEPT ![adm[p].com] = p]
    /\ adm' = [adm EXCEPT ![p].pc = "validar", ![p].leida = comision[adm[p].com]]
    /\ UNCHANGED <<comision, inscripciones, aprobadas, correlativas, baj, reloj, entorno,
                 estudiante_carreras, alta>>

\* variant: the carrera of the section is not compared with the student's
AdmitValidarSinCarrera(p) ==
    /\ adm[p].pc = "validar"
    /\ IF ~adm[p].ec_activa
       THEN Rechazar(p, InactiveCareer, {})
       ELSE IF ~adm[p].leida.activa
       THEN Rechazar(p, InactiveSection, {})
       ELSE IF ~tiene_cupo(adm[p].leida)
       THEN Rechazar(p, NoCapacity, {})
       ELSE /\ adm' = [adm EXCEPT ![p].pc = "comision"]
            /\ UNCHANGED <<comision, inscripciones, bloqueo>>
    /\ UNCHANGED <<aprobadas, correlativas, baj, reloj, entorno,
                 estudiante_carreras, alta>>

\* variant: the cupo is not tested
AdmitValidarSinCupo(p) ==
    /\ adm[p].pc = "validar"
    /\ IF ~adm[p].ec_activa
       THEN Rechazar(p, InactiveCareer, {})
       ELSE IF ~adm[p].leida.activa
       THEN Rechazar(p, InactiveSection, {})
       ELSE IF CarreraDeCM(CarreraMateriaDe(adm[p].com)) # CarreraDeEstudiante(adm[p].ec)
       THEN Rechazar(p, WrongCareer, {})
       ELSE /\ adm' = [adm EXCEPT ![p].pc = "comision"]
            /\ UNCHANGED <<comision, inscripciones, bloqueo>>
    /\ UNCHANGED <<aprobadas, correlativas, baj, reloj, entorno,
                 estudiante_carreras, alta>>

\* the checks on the objects in memory: carrera activa, comision activa,
\* carrera de la comision, cupo
AdmitValidar(p) ==
    /\ adm[p].pc = "validar"
    /\ IF ~adm[p].ec_activa
       THEN Rechazar(p, InactiveCareer, {})
       ELSE IF ~adm[p].leida.activa
       THEN Rechazar(p, InactiveSection, {})
       ELSE IF CarreraDeCM(CarreraMateriaDe(adm[p].com)) # CarreraDeEstudiante(adm[p].ec)
       THEN Rechazar(p, WrongCareer, {})
       ELSE IF ~tiene_cupo(adm[p].leida)
       THEN Rechazar(p, NoCapacity, {})
       ELSE /\ adm' = [adm EXCEPT ![p].pc = "comision"]
            /\ UNCHANGED <<comision, inscripciones, bloqueo>>
    /\ UNCHANGED <<aprobadas, correlativas, baj, reloj, entorno,
                 estudiante_carreras, alta>>

\* variant: the section is not searched for a row of the student
AdmitSinVerificarComision(p) ==
    /\ adm[p].pc = "comision"
    /\ adm' = [adm EXCEPT ![p].pc = "materia"]
    /\ UNCHANGED <<comision, inscripciones, bloqueo, aprobadas, correlativas, baj, reloj, entorno,
                 estudiante_carreras, alta>>

\* no active Inscripcion of the student in this section
AdmitVerificarComision(p) ==
    /\ adm[p].pc = "comision"
    /\ IF ExisteActivaEnComision(adm[p].ec, adm[p].com)
       THEN Rechazar(p, AlreadyEnrolledInSection, {})
       ELSE /\ adm' = [adm EXCEPT ![p].pc = "materia"]
            /\ UNCHANGED <<comision, inscripciones, bloqueo>>
    /\ UNCHANGED <<aprobadas, correlativas, baj, reloj, entorno,
                 estudiante_carreras, alta>>

\* no active Inscripcion of the student in the same materia and cuatrimestre
AdmitVerificarMateria(p) ==
    /\ adm[p].pc = "materia"
    /\ IF ExisteActivaEnMateria(adm[p].ec, adm[p].com)
       THEN Rechazar(p, AlreadyEnrolledInCourseThisTerm, {})
       ELSE /\ adm' = [adm EXCEPT ![p].pc = "correlativas"]
            /\ UNCHANGED <<comision, inscripciones, bloqueo>>
    /\ UNCHANGED <<aprobadas, correlativas, baj, reloj, entorno,
                 estudiante_carreras, alta>>

\* variant: the correlativas are tested before the approval of the materia
validar_correlativas_al_reves(p) ==
    /\ adm[p].pc = "correlativas"
    /\ IF Faltantes(adm[p].ec, CarreraMateriaDe(adm[p].com)) # {}
       THEN Rechazar(p, UnmetPrerequisites, Faltantes(adm[p].ec, CarreraMateriaDe(adm[p].com)))
       ELSE IF estudiante_aprobo_materia(adm[p].ec, MateriaDe(adm[p].com))
       THEN Rechazar(p, CourseAlreadyApproved, {})
       ELSE /\ adm' = [adm EXCEPT ![p].pc = "create"]
            /\ UNCHANGED <<comision, inscripciones, bloqueo>>
    /\ UNCHANGED <<aprobadas, correlativas, baj, reloj, entorno,
                 estudiante_carreras, alta>>

\* validar_correlativas(estudiante_carrera, comision.carrera_materia)
validar_correlativas(p) ==
    /\ adm[p].pc = "correlativas"
    /\ IF estudiante_aprobo_materia(adm[p].ec, MateriaDe(adm[p].com))
       THEN Rechazar(p, CourseAlreadyApproved, {})
       ELSE IF Faltantes(adm[p].ec, CarreraMateriaDe(adm[p].com)) # {}
       THEN Rechazar(p, UnmetPrerequisites, Faltantes(adm[p].ec, CarreraMateriaDe(adm[p].com)))
       ELSE /\ adm' = [adm EXCEPT ![p].pc = "create"]
            /\ UNCHANGED <<comision, inscripciones, bloqueo>>
    /\ UNCHANGED <<aprobadas, correlativas, baj, reloj, entorno,
                 estudiante_carreras, alta>>

\* Inscripcion.objects.create(...): the INSERT, checked against the constraints
AdmitCrear(p) ==
    /\ adm[p].pc = "create"
    /\ IF ViolaUnicaComision(adm[p].ec, adm[p].com)
       THEN Rechazar(p, TraducirIntegrityError(MensajeUnicaComision), {})
       ELSE IF ViolaUnicaMateria(adm[p].ec, FilaNueva(adm[p].com))
       THEN Rechazar(p, TraducirIntegrityError(MensajeUnicaMateria), {})
       ELSE /\ adm' = [adm EXCEPT ![p].pc = "save"]
            /\ UNCHANGED <<comision, inscripciones, bloqueo>>
    /\ UNCHANGED <<aprobadas, correlativas, baj, reloj, entorno,
                 estudiante_carreras, alta>>

\* variant: the row lock is given up as soon as the counter is saved, before
\* the transaction ends
AdmitGuardarYSoltar(p) ==
    /\ adm[p].pc = "save"
    /\ adm' = [adm EXCEPT ![p].pc = "commit",
                          ![p].leida.capacidad_actual = adm[p].leida.capacidad_actual + 1]
    /\ bloqueo' = [bloqueo EXCEPT ![adm[p].com] = NADIE]
    /\ UNCHANGED <<comision, inscripciones, aprobadas, correlativas, baj, reloj, entorno,
                 estudiante_carreras, alta>>

\* comision.capacidad_actual += 1; comision.save(update_fields=[...])
AdmitGuardar(p) ==
    /\ adm[p].pc = "save"
    /\ adm' = [adm EXCEPT ![p].pc = "commit",
                          ![p].leida.capacidad_actual = adm[p].leida.capacidad_actual + 1]
    /\ UNCHANGED <<comision, inscripciones, aprobadas, correlativas, bloqueo, baj, reloj, entorno,
                 estudiante_carreras, alta>>

\* variant: the UPDATE reaches every section of the same CarreraMateria
AdmitCommitTodas(p) ==
    /\ adm[p].pc = "commit"
    /\ inscripciones' = [inscripciones EXCEPT ![<<adm[p].ec, adm[p].com>>] =
                            Append(@, FilaNueva(adm[p].com))]
    /\ comision' = [c \in Comisiones |->
                       IF CarreraMateriaDe(c) = CarreraMateriaDe(adm[p].com)
                       THEN [comision[c] EXCEPT !.capacidad_actual =
                                adm[p].leida.capacidad_actual]
                       ELSE comision[c]]
    /\ bloqueo' = [bloqueo EXCEPT ![adm[p].com] = NADIE]
    /\ adm' = [adm EXCEPT ![p].pc = "done", ![p].res = OK, ![p].leida = SinLeer]
    /\ UNCHANGED <<aprobadas, correlativas, baj, reloj, entorno,
                 estudiante_carreras, alta>>

\* variant: only the INSERT becomes visible, the UPDATE is lost
AdmitCommitSoloFila(p) ==
    /\ adm[p].pc = "commit"
    /\ inscripciones' = [inscripciones EXCEPT ![<<adm[p].ec, adm[p].com>>] =
                            Append(@, FilaNueva(adm[p].com))]
    /\ bloqueo' = [bloqueo EXCEPT ![adm[p].com] = NADIE]
    /\ adm' = [adm EXCEPT ![p].pc = "done", ![p].res = OK, ![p].leida = SinLeer]
    /\ UNCHANGED <<comision, aprobadas, correlativas, baj, reloj, entorno,
                 estudiante_carreras, alta>>

\* leaving the atomic block: the INSERT and the UPDATE become visible together
\* and the row lock is released
AdmitCommit(p) ==
    /\ adm[p].pc = "commit"
    /\ inscripciones' = [inscripciones EXCEPT ![<<adm[p].ec, adm[p].com>>] =
                            Append(@, FilaNueva(adm[p].com))]
    /\ comision' = [comision EXCEPT ![adm[p].com].capacidad_actual =
                            adm[p].leida.capacidad_actual]
    /\ bloqueo' = [bloqueo EXCEPT ![adm[p].com] = NADIE]
    /\ adm' = [adm EXCEPT ![p].pc = "done", ![p].res = OK, ![p].leida = SinLeer]
    /\ UNCHANGED <<aprobadas, correlativas, baj, reloj, entorno,
                 estudiante_carreras, alta>>

Admit ==
    \E p \in Llamadores :
        \/ \E en \in entorno.entradas : AdmitLlamar(p, en[1], en[2], en[3])
        \/ AdmitBloquear(p)
        \/ AdmitValidar(p)
        \/ AdmitVerificarComision(p)
        \/ AdmitVerificarMateria(p)
        \/ validar_correlativas(p)
        \/ AdmitCrear(p)
        \/ AdmitGuardar(p)
        \/ AdmitCommit(p)

----------------------------------------------------------------------------
(* Inscripcion.dar_baja *)

\* An instance is "loaded" until dar_baja is first called on it, "leer" and
\* "restar" inside a call that found it active, and "una" / "dos" once one /
\* two or more calls on it have returned.

FilaDe(w) == inscripciones[<<baj[w].ec, baj[w].com>>][baj[w].idx]

\* variant: the decrement has no floor
SinPiso(n) == n

\* max(0, n)
Max0(n) == IF n > 0 THEN n ELSE 0

\* an Inscripcion row is loaded into memory; with select_related (or after an
\* earlier access) its comision is loaded with it, else it is fetched on first use
BajaCargar(w, e, c, i, con_comision) ==
    /\ baj[w].pc \in {"idle", "loaded", "una", "dos"}
    /\ entorno.cargar > 0
    /\ PuedeEmpezar(w)
    /\ FilaExiste(e, c, i)
    /\ entorno' = [entorno EXCEPT !.cargar = @ - 1]
    /\ baj' = [baj EXCEPT ![w] =
                  [BajIdle EXCEPT !.pc = "loaded", !.ec = e, !.com = c, !.idx = i,
                                  !.activa = inscripciones[<<e, c>>][i].activa,
                                  !.en_cache = con_comision,
                                  !.cache = IF con_comision
                                            THEN comision[c].capacidad_actual ELSE 0]]
    /\ UNCHANGED <<comision, inscripciones, aprobadas, correlativas, bloqueo, adm, reloj,
                 estudiante_carreras, alta>>

\* variant: the flag is not tested, every call writes
dar_baja_sin_guarda(w) ==
    /\ baj[w].pc \in {"loaded", "una", "dos"}
    /\ inscripciones' = [inscripciones EXCEPT
          ![<<baj[w].ec, baj[w].com>>][baj[w].idx].activa = FALSE,
          ![<<baj[w].ec, baj[w].com>>][baj[w].idx].fecha_baja = reloj]
    /\ reloj' = reloj + 1
    /\ baj' = [baj EXCEPT ![w].activa = FALSE,
                          ![w].pc = IF baj[w].en_cache THEN "restar" ELSE "leer",
                          ![w].efectiva = TRUE]
    /\ UNCHANGED <<comision, aprobadas, correlativas, bloqueo, adm, entorno,
                 estudiante_carreras, alta>>

\* variant: the flag is written without the date
dar_baja_sin_fecha(w) ==
    /\ baj[w].pc \in {"loaded", "una", "dos"}
    /\ IF baj[w].activa
       THEN /\ inscripciones' = [inscripciones EXCEPT
                  ![<<baj[w].ec, baj[w].com>>][baj[w].idx].activa = FALSE]
            /\ reloj' = reloj + 1
            /\ baj' = [baj EXCEPT ![w].activa = FALSE,
                                  ![w].pc = IF baj[w].en_cache THEN "restar" ELSE "leer",
                                  ![w].efectiva = TRUE]
       ELSE /\ baj' = [baj EXCEPT ![w].pc = IF @ = "loaded" THEN "una" ELSE "dos"]
            /\ UNCHANGED <<inscripciones, reloj>>
    /\ UNCHANGED <<comision, aprobadas, correlativas, bloqueo, adm, entorno,
                 estudiante_carreras, alta>>

\* dar_baja up to the first save: if self.activa, the flag and the date are
\* written (an UPDATE that commits on its own); else the call returns
dar_baja(w) ==
    /\ baj[w].pc \in {"loaded", "una", "dos"}
    /\ IF baj[w].activa
       THEN /\ inscripciones' = [inscripciones EXCEPT
                  ![<<baj[w].ec, baj[w].com>>][baj[w].idx].activa = FALSE,
                  ![<<baj[w].ec, baj[w].com>>][baj[w].idx].fecha_baja = reloj]
            /\ reloj' = reloj + 1
            /\ baj' = [baj EXCEPT ![w].activa = FALSE,
                                  ![w].pc = IF baj[w].en_cache THEN "restar" ELSE "leer",
                                  ![w].efectiva = TRUE]
       ELSE /\ baj' = [baj EXCEPT ![w].pc = IF @ = "loaded" THEN "una" ELSE "dos"]
            /\ UNCHANGED <<inscripciones, reloj>>
    /\ UNCHANGED <<comision, aprobadas, correlativas, bloqueo, adm, entorno,
                 estudiante_carreras, alta>>

\* self.comision, fetched when the instance does not hold it yet
BajaLeerComision(w) ==
    /\ baj[w].pc = "leer"
    /\ baj' = [baj EXCEPT ![w].pc = "restar", ![w].en_cache = TRUE,
                          ![w].cache = comision[baj[w].com].capacidad_actual]
    /\ UNCHANGED <<comision, inscripciones, aprobadas, correlativas, bloqueo, adm, reloj, entorno,
                 estudiante_carreras, alta>>

\* variant: the withdrawal leaves the occupancy as it was
BajaSinRestar(w) ==
    /\ baj[w].pc = "restar"
    /\ bloqueo[baj[w].com] = NADIE
    /\ baj' = [baj EXCEPT ![w].pc = "una"]
    /\ UNCHANGED <<comision, inscripciones, aprobadas, correlativas, bloqueo, adm, reloj, entorno,
                   estudiante_carreras, alta>>

\* self.comision.capacidad_actual = max(0, ... - 1); self.comision.save(...):
\* an UPDATE of the Comision row, which waits for the row lock
BajaGuardarComision(w) ==
    /\ baj[w].pc = "restar"
    /\ bloqueo[baj[w].com] = NADIE
    /\ comision' = [comision EXCEPT ![baj[w].com].capacidad_actual = Max0(baj[w].cache - 1)]
    /\ baj' = [baj EXCEPT ![w].pc = "una", ![w].cache = Max0(baj[w].cache - 1)]
    /\ UNCHANGED <<inscripciones, aprobadas, correlativas, bloqueo, adm, reloj, entorno,
                 estudiante_carreras, alta>>

Baja ==
    \E w \in Instancias :
        \/ \E f \in Filas, con_comision \in BOOLEAN :
              BajaCargar(w, f[1], f[2], f[3], con_comision)
        \/ dar_baja(w)
        \/ BajaLeerComision(w)
        \/ BajaGuardarComision(w)

----------------------------------------------------------------------------
(* Writes of the collaborators *)

\* MateriaAprobada.objects.create(estudiante_carrera=e, materia=m, ...)
Aprobar(e, m) ==
    /\ entorno.admin > 0
    /\ entorno.secuencial => NadieEnCurso
    /\ <<e, m>> \notin aprobadas
    /\ aprobadas' = aprobadas \cup {<<e, m>>}
    /\ entorno' = [entorno EXCEPT !.admin = @ - 1]
    /\ UNCHANGED <<comision, inscripciones, correlativas, bloqueo, adm, baj, reloj,
                 estudiante_carreras, alta>>

\* carrera_materia.correlativas.add(carrera_materia_prev)
AgregarCorrelativa(cm, prev) ==
    /\ entorno.admin > 0
    /\ entorno.secuencial => NadieEnCurso
    /\ prev \notin correlativas[cm]
    /\ correlativas' = [correlativas EXCEPT ![cm] = @ \cup {prev}]
    /\ entorno' = [entorno EXCEPT !.admin = @ - 1]
    /\ UNCHANGED <<comision, inscripciones, aprobadas, bloqueo, adm, baj, reloj,
                 estudiante_carreras, alta>>

\* the collaborators approve e1 in X or in Y and make cmY a correlativa of cmX
Admin ==
    \/ \E m \in {"X", "Y"} : Aprobar("e1", m)
    \/ AgregarCorrelativa("cmX", "cmY")

----------------------------------------------------------------------------
(* EstudianteCarrera: the add form of EstudianteCarreraAdmin *)

\* EstudianteCarrera.objects.filter(estudiante=s, activa=True).exists(); the
\* instance of an add form has no pk, so exclude(pk=None) removes nothing
TieneCarreraActiva(s) == \E k \in Carreras : estudiante_carreras[<<s, k>>] = Activa

\* an operator submits the add form for (estudiante, carrera, activa)
AltaLlamar(g, s, k, act) ==
    /\ alta[g].pc \in {"idle", "done"}
    /\ entorno.altas > 0
    /\ entorno' = [entorno EXCEPT !.altas = @ - 1]
    /\ alta' = [alta EXCEPT ![g] = [AltaIdle EXCEPT !.pc = "clean", !.est = s,
                                                    !.car = k, !.activa = act]]
    /\ UNCHANGED <<comision, inscripciones, aprobadas, correlativas, bloqueo, adm, baj, reloj,
                   estudiante_carreras>>

\* form validation: EstudianteCarrera.clean, then the check of
\* unique_estudiante_carrera against the rows committed so far
AltaClean(g) ==
    /\ alta[g].pc = "clean"
    /\ IF alta[g].activa /\ TieneCarreraActiva(alta[g].est)
       THEN alta' = [alta EXCEPT ![g].pc = "done", ![g].res = CareerAlreadyActive]
       ELSE IF estudiante_carreras[<<alta[g].est, alta[g].car>>] # SinFila
       THEN alta' = [alta EXCEPT ![g].pc = "done", ![g].res = DuplicateStudentCareer]
       ELSE alta' = [alta EXCEPT ![g].pc = "save"]
    /\ UNCHANGED <<comision, inscripciones, aprobadas, correlativas, bloqueo, adm, baj, reloj,
                   entorno, estudiante_carreras>>

\* save of the valid form: the INSERT, refused by unique_estudiante_carrera
\* when the pair has got a row meanwhile
AltaSave(g) ==
    /\ alta[g].pc = "save"
    /\ IF estudiante_carreras[<<alta[g].est, alta[g].car>>] # SinFila
       THEN /\ alta' = [alta EXCEPT ![g].pc = "done", ![g].res = DuplicateStudentCareer]
            /\ UNCHANGED estudiante_carreras
       ELSE /\ estudiante_carreras' =
                  [estudiante_carreras EXCEPT ![<<alta[g].est, alta[g].car>>] =
                      IF alta[g].activa THEN Activa ELSE Historica]
            /\ alta' = [alta EXCEPT ![g].pc = "done", ![g].res = OK]
    /\ UNCHANGED <<comision, inscripciones, aprobadas, correlativas, bloqueo, adm, baj, reloj,
                   entorno>>

Alta ==
    \E g \in Operadores :
        \/ \E s \in Estudiantes, k \in Carreras, act \in BOOLEAN : AltaLlamar(g, s, k, act)
        \/ AltaClean(g)
        \/ AltaSave(g)

----------------------------------------------------------------------------
(* Specifications *)

Next == Admit \/ Baja

\* admissions overlapping withdrawals
Spec == Init /\ [][Next]_vars

NextBaja == Admit \/ Baja

\* admissions of two students overlapping withdrawals
SpecBaja == InitBaja /\ [][NextBaja]_vars

NextAdm == Admit

\* overlapping admissions
SpecAdm == InitAdm /\ [][NextAdm]_vars

NextSec == Admit \/ Baja \/ Admin

\* one call at a time
SpecSec == InitSec /\ [][NextSec]_vars

NextCarrera == Alta

\* concurrent add-form requests for EstudianteCarrera rows
SpecCarrera == InitCarrera /\ [][NextCarrera]_vars

NextCorr == Admit

\* one call at a time, from every table of approvals and correlativas
SpecCorr == InitCorr /\ [][NextCorr]_vars

----------------------------------------------------------------------------
(* Properties *)

\* the call of caller p returns in this step
Retorna(p) == adm[p].pc \notin {"idle", "done"} /\ adm'[p].pc = "done"

\* the call of caller p has returned and p has made no other call since
Termino(p) == adm[p].pc = "done"

\* C1: once every inscribir_estudiante call has finished, however the calls
\* overlapped, the occupancy of each section is at most its capacidad_maxima and
\* equals the number of active Inscripcion rows of the section
C1_SinSobrecupo ==
    (\A p \in Llamadores : adm[p].pc \in {"idle", "done"}) =>
        \A c \in Comisiones :
            /\ comision[c].capacidad_actual <= comision[c].capacidad_maxima
            /\ comision[c].capacidad_actual = Activas(c)

\* two overlapping calls on section A have both been admitted
C1_Testigo ==
    /\ Termino("p1") /\ Termino("p2")
    /\ adm["p1"].com = "A" /\ adm["p2"].com = "A"
    /\ adm["p1"].res = OK /\ adm["p2"].res = OK
    /\ adm["p1"].serie \in adm["p2"].pre.con
    /\ comision["A"].capacidad_actual = 2

\* C2: no step of an inscribir_estudiante call other than the commit of an
\* admitted one writes the tables; in particular the step that rejects a call
\* leaves every Inscripcion row and every occupancy as they were
C2_RechazoSinEscrituras ==
    [][\A p \in Llamadores :
          (adm'[p] # adm[p] /\ ~(adm'[p].pc = "done" /\ adm'[p].res = OK))
              => UNCHANGED <<comision, inscripciones>>]_vars

\* a call has been rejected for its correlativas
C2_Testigo ==
    /\ Termino("p1")
    /\ adm["p1"].res = UnmetPrerequisites
    /\ adm["p1"].faltantes = {"Y"}

\* C3: whenever no dar_baja call is between its two writes, the occupancy of
\* each section equals the number of its active Inscripcion rows, under every
\* interleaving of inscribir_estudiante and dar_baja
C3_ContadorConsistente ==
    (\A w \in Instancias : baj[w].pc \notin {"leer", "restar"}) =>
        \A c \in Comisiones : comision[c].capacidad_actual = Activas(c)

CarreraPorElUltimoLugar(p, q) ==
    /\ p # q
    /\ Termino(p) /\ Termino(q)
    /\ adm[p].serie \in adm[q].pre.con
    /\ adm[q].pre.apto
    /\ adm[q].pre.libres = 1
    /\ adm[p].com = adm[q].com
    /\ adm[p].ec # adm[q].ec

\* C5: of two overlapping calls of different eligible students for the last free
\* seat of a section, exactly one is admitted, the other is rejected for lack of
\* capacity, and the section ends full
C5_UltimoLugar ==
    \A p, q \in Llamadores :
        CarreraPorElUltimoLugar(p, q) =>
            /\ \/ adm[p].res = OK /\ adm[q].res = NoCapacity
               \/ adm[p].res = NoCapacity /\ adm[q].res = OK
            /\ comision[adm[p].com].capacidad_actual = comision[adm[p].com].capacidad_maxima

\* the race for the last seat happened, and the call made first lost it
C5_Testigo ==
    /\ CarreraPorElUltimoLugar("p1", "p2")
    /\ adm["p1"].res = NoCapacity

C8_BajaAtomica ==
    \A w \in Instancias :
        baj[w].pc \in {"leer", "restar"} => FilaDe(w).activa

\* the materias of the correlativas the student has not approved
SinAprobar(e, c) ==
    {MateriaDeCM(k) : k \in {j \in correlativas[CarreraMateriaDe(c)] :
                               <<e, MateriaDeCM(j)>> \notin aprobadas}}

\* a call whose only failing precondition is a correlativa not approved is
\* rejected naming the missing materias and writes nothing
RechazoPorCorrelativas(p) ==
    PrimerRechazo(adm[p].ec, adm[p].ec_activa, adm[p].com) = UnmetPrerequisites =>
        /\ adm'[p].res = UnmetPrerequisites
        /\ adm'[p].faltantes = SinAprobar(adm[p].ec, adm[p].com)
        /\ UNCHANGED <<comision, inscripciones>>

\* the call is admitted: one active row more and one seat less
Admitida(p) ==
    /\ adm'[p].res = OK
    /\ comision' = [comision EXCEPT ![adm[p].com].capacidad_actual = @ + 1]
    /\ inscripciones' = [inscripciones EXCEPT ![<<adm[p].ec, adm[p].com>>] =
                            Append(@, FilaNueva(adm[p].com))]

\* C9 as stated: a call for a materia with a correlativa not approved is
\* rejected for its correlativas, and once every correlativa is approved, all
\* else equal, the call is admitted and the occupancy rises by one
C9_Original ==
    [][\A p \in Llamadores :
          Retorna(p) =>
              /\ RechazoPorCorrelativas(p)
              /\ (/\ correlativas[CarreraMateriaDe(adm[p].com)] # {}
                  /\ PrimerRechazo(adm[p].ec, adm[p].ec_activa, adm[p].com) = OK)
                    => Admitida(p)]_vars

\* C9: a call for a materia with a correlativa not approved is rejected for its
\* correlativas, and once every correlativa is approved, all else equal and no
\* Inscripcion row, active or withdrawn, linking the student to the section, the
\* call is admitted and the occupancy rises by one
C9_Correlativas ==
    [][\A p \in Llamadores :
          Retorna(p) =>
              /\ RechazoPorCorrelativas(p)
              /\ (/\ correlativas[CarreraMateriaDe(adm[p].com)] # {}
                  /\ PrimerRechazo(adm[p].ec, adm[p].ec_activa, adm[p].com) = OK
                  /\ inscripciones[<<adm[p].ec, adm[p].com>>] = <<>>)
                    => Admitida(p)]_vars

\* a call for a materia that had correlativas when the call was made, all
\* approved, has been admitted
C9_Testigo ==
    /\ Termino("p1")
    /\ adm["p1"].pre.previas
    /\ adm["p1"].res = OK
    /\ <<adm["p1"].ec, "Y">> \in aprobadas

\* C10 as stated: every call returns the rejection of the first precondition
\* that fails, in the order of section 4.1, and is admitted when none fails
C10_Original ==
    [][\A p \in Llamadores :
          Retorna(p) =>
              adm'[p].res = PrimerRechazo(adm[p].ec, adm[p].ec_activa, adm[p].com)]_vars

\* C10: every call returns the rejection of the first precondition that fails,
\* in the order of section 4.1; when none fails it is admitted, unless a
\* withdrawn row already links the student to the section, and then it is
\* rejected as already enrolled in the section; no call returns the generic
\* failure
C10_PrimerRechazo ==
    [][\A p \in Llamadores :
          Retorna(p) =>
              /\ adm'[p].res =
                    IF /\ PrimerRechazo(adm[p].ec, adm[p].ec_activa, adm[p].com) = OK
                       /\ inscripciones[<<adm[p].ec, adm[p].com>>] # <<>>
                    THEN AlreadyEnrolledInSection
                    ELSE PrimerRechazo(adm[p].ec, adm[p].ec_activa, adm[p].com)
              /\ adm'[p].res # GenericFailure]_vars

\* a call made while a withdrawn row linked the student to the section, with
\* every precondition satisfied, has been rejected as already enrolled
C10_Testigo ==
    /\ Termino("p1")
    /\ adm["p1"].pre.baja
    /\ adm["p1"].pre.libres > 0
    /\ ~adm["p1"].pre.otra
    /\ adm["p1"].res = AlreadyEnrolledInSection

\* an Inscripcion row is added in this step
FilaAgregada ==
    \E par \in Pares : Len(inscripciones'[par]) > Len(inscripciones[par])

\* the occupancy of some section rises in this step
CupoAumentado ==
    \E c \in Comisiones : comision'[c].capacidad_actual > comision[c].capacidad_actual

\* the two writes of an admission take effect in one step, that of a call
\* being admitted, or not at all
EscriturasJuntas ==
    /\ FilaAgregada <=> CupoAumentado
    /\ FilaAgregada => \E p \in Llamadores : Retorna(p) /\ Admitida(p)

\* C11 as stated: a call made when every precondition holds adds exactly one
\* active row for the student and the section and raises the occupancy of the
\* section by one, and the two writes take effect in one step
C11_Original ==
    [][/\ EscriturasJuntas
       /\ \A p \in Llamadores :
             (Retorna(p) /\ PrimerRechazo(adm[p].ec, adm[p].ec_activa, adm[p].com) = OK)
                 => Admitida(p)]_vars

\* C11: a call made when every precondition holds and no Inscripcion row,
\* active or withdrawn, links the student to the section adds exactly one active
\* row for the student and the section and raises the occupancy of the section
\* by one; the two writes take effect in one step, so no state shows one
\* without the other
C11_AltaAtomica ==
    [][/\ EscriturasJuntas
       /\ \A p \in Llamadores :
             (/\ Retorna(p)
              /\ PrimerRechazo(adm[p].ec, adm[p].ec_activa, adm[p].com) = OK
              /\ inscripciones[<<adm[p].ec, adm[p].com>>] = <<>>)
                 => Admitida(p)]_vars

\* a call made with every precondition satisfied has been admitted: its row is
\* the only one of the pair and the section counts it
C11_Testigo ==
    /\ Termino("p1")
    /\ adm["p1"].pre.apto
    /\ adm["p1"].pre.libres > 0
    /\ adm["p1"].res = OK
    /\ Len(inscripciones[<<adm["p1"].ec, adm["p1"].com>>]) = 1
    /\ comision[adm["p1"].com].capacidad_actual = Activas(adm["p1"].com)

\* the repeated call is rejected as already enrolled in the section and writes
\* nothing: the occupancy stays 1 and the pair keeps its single row
RepetidaRechazada(p) ==
    /\ adm'[p].res = AlreadyEnrolledInSection
    /\ UNCHANGED <<comision, inscripciones>>
    /\ comision'[adm[p].com].capacidad_actual = 1
    /\ Len(inscripciones'[<<adm[p].ec, adm[p].com>>]) = 1

\* C12 as stated: for a section of any capacidad_maxima >= 1 that was empty,
\* the second of two calls in sequence for the same eligible student is
\* rejected as already enrolled in the section, the occupancy stays 1 and one
\* row exists
C12_Original ==
    [][\A p \in Llamadores :
          (Retorna(p) /\ adm[p].previa) => RepetidaRechazada(p)]_vars

\* C12: for a section of capacidad_maxima >= 2 that was empty, the second of
\* two calls in sequence for the same eligible student is rejected as already
\* enrolled in the section, the occupancy stays 1 and one row exists; for a
\* section of capacidad_maxima 1 the second call is rejected for lack of
\* capacity, with the same tables
C12_DosVeces ==
    [][\A p \in Llamadores :
          (Retorna(p) /\ adm[p].previa) =>
              IF comision[adm[p].com].capacidad_maxima >= 2
              THEN RepetidaRechazada(p)
              ELSE /\ adm'[p].res = NoCapacity
                   /\ UNCHANGED <<comision, inscripciones>>
                   /\ comision'[adm[p].com].capacidad_actual = 1
                   /\ Len(inscripciones'[<<adm[p].ec, adm[p].com>>]) = 1]_vars

\* the second of two calls in sequence for the same student and a section of
\* capacidad_maxima 2 has been rejected as already enrolled
C12_Testigo ==
    /\ Termino("p1")
    /\ adm["p1"].previa
    /\ comision[adm["p1"].com].capacidad_maxima >= 2
    /\ adm["p1"].res = AlreadyEnrolledInSection

\* C13: a call for an active student of the career of the section, on an active
\* section whose occupancy equals its capacidad_maxima, is rejected for lack of
\* capacity and leaves every occupancy and every Inscripcion row as they were
C13_SinCupo ==
    [][\A p \in Llamadores :
          (/\ Retorna(p)
           /\ adm[p].ec_activa
           /\ comision[adm[p].com].activa
           /\ CarreraDeCM(CarreraMateriaDe(adm[p].com)) = CarreraDeEstudiante(adm[p].ec)
           /\ comision[adm[p].com].capacidad_actual = comision[adm[p].com].capacidad_maxima)
              => /\ adm'[p].res = NoCapacity
                 /\ UNCHANGED <<comision, inscripciones>>]_vars

\* a call of a student not yet in the section, made when the section was full,
\* has been rejected for lack of capacity
C13_Testigo ==
    /\ Termino("p1")
    /\ adm["p1"].pre.libres = 0
    /\ inscripciones[<<adm["p1"].ec, adm["p1"].com>>] = <<>>
    /\ adm["p1"].res = NoCapacity

\* C14: a call for a student whose Inscripcion in the section was withdrawn is
\* rejected; when no precondition fails, the violation of the unique index on
\* the pair is reported as already enrolled in the section, never as the
\* generic failure; no row is added and no occupancy changes
C14_ReinscripcionRechazada ==
    [][\A p \in Llamadores :
          (/\ Retorna(p)
           /\ inscripciones[<<adm[p].ec, adm[p].com>>] # <<>>
           /\ ~ExisteActivaEnComision(adm[p].ec, adm[p].com))
              => /\ adm'[p].res \notin {OK, GenericFailure}
                 /\ PrimerRechazo(adm[p].ec, adm[p].ec_activa, adm[p].com) = OK
                       => adm'[p].res = AlreadyEnrolledInSection
                 /\ adm[p].pc = "create" => adm'[p].res = AlreadyEnrolledInSection
                 /\ UNCHANGED <<comision, inscripciones>>]_vars

\* a call made after the withdrawal of the student's row has been rejected as
\* already enrolled: the pair keeps its one withdrawn row and the section is
\* empty
C14_Testigo ==
    /\ Termino("p1")
    /\ adm["p1"].pre.baja
    /\ adm["p1"].res = AlreadyEnrolledInSection
    /\ Len(inscripciones[<<adm["p1"].ec, adm["p1"].com>>]) = 1
    /\ ~ExisteActivaEnComision(adm["p1"].ec, adm["p1"].com)
    /\ comision[adm["p1"].com].capacidad_actual = 0

\* C15: in every state, however inscribir_estudiante and dar_baja calls
\* interleave, each pair of student and section has at most one Inscripcion
\* row, active or withdrawn, and so never two active ones
C15_UnaFilaPorPar ==
    \A par \in Pares :
        /\ Len(inscripciones[par]) <= 1
        /\ Cardinality({i \in DOMAIN inscripciones[par] : inscripciones[par][i].activa}) <= 1

\* the student was admitted, withdrew, and a later call for the same section
\* has returned a rejection: the pair still has its single withdrawn row
C15_Testigo ==
    /\ Termino("p1")
    /\ adm["p1"].res # OK
    /\ Len(inscripciones[<<adm["p1"].ec, adm["p1"].com>>]) = 1
    /\ ~inscripciones[<<adm["p1"].ec, adm["p1"].com>>][1].activa
    /\ inscripciones[<<adm["p1"].ec, adm["p1"].com>>][1].fecha_baja # SinFecha

\* C16: every Inscripcion row carries the materia and the cuatrimestre of its
\* section; neither column is left empty
C16_FilaDenormalizada ==
    \A par \in Pares : \A i \in DOMAIN inscripciones[par] :
        /\ inscripciones[par][i].materia = MateriaDe(par[2])
        /\ inscripciones[par][i].cuatrimestre = CuatrimestreDe(par[2])

\* the steps of inscribir_estudiante that run inside the transaction after the
\* select_for_update: the checks, the INSERT, the UPDATE, up to the commit
ConBloqueo == {"validar", "comision", "materia", "correlativas", "create", "save", "commit"}

\* C17: a call holds the lock of its section from before it reads the section
\* and through every check and write until its transaction commits or aborts;
\* it holds no lock and has read nothing before the select_for_update nor after
\* returning; no two calls are past the select_for_update of the same section
C17_BloqueoPrimero ==
    /\ \A p \in Llamadores :
          /\ adm[p].pc \in ConBloqueo
                => bloqueo[adm[p].com] = p /\ adm[p].leida # SinLeer
          /\ adm[p].pc \notin ConBloqueo
                => adm[p].leida = SinLeer /\ \A c \in Comisiones : bloqueo[c] # p
          /\ \A c \in Comisiones : bloqueo[c] = p => adm[p].com = c
    /\ \A p, q \in Llamadores :
          (p # q /\ adm[p].pc \in ConBloqueo /\ adm[q].pc \in ConBloqueo)
              => adm[p].com # adm[q].com

\* one call is about to commit, holding the lock of its section, while the
\* other call, for the same section, waits at its select_for_update
C17_Testigo ==
    /\ adm["p1"].pc = "commit"
    /\ adm["p2"].pc = "lock"
    /\ adm["p2"].com = adm["p1"].com
    /\ bloqueo[adm["p1"].com] = "p1"
    /\ adm["p2"].leida = SinLeer

\* the next step of the call of caller p, whichever it is
PasoDe(p) ==
    \/ AdmitBloquear(p)
    \/ AdmitValidar(p)
    \/ AdmitVerificarComision(p)
    \/ AdmitVerificarMateria(p)
    \/ validar_correlativas(p)
    \/ AdmitCrear(p)
    \/ AdmitGuardar(p)
    \/ AdmitCommit(p)

C19_TodasLasFaltantes ==
    [][\A p \in Llamadores :
          (/\ adm[p].pc = "correlativas"
           /\ adm'[p].pc # "correlativas"
           /\ <<adm[p].ec, MateriaDe(adm[p].com)>> \notin aprobadas)
              => IF SinAprobar(adm[p].ec, adm[p].com) = {}
                 THEN adm'[p].pc = "create"
                 ELSE /\ adm'[p].pc = "done"
                      /\ adm'[p].res = UnmetPrerequisites
                      /\ adm'[p].faltantes = SinAprobar(adm[p].ec, adm[p].com)]_vars

\* a call was rejected for two missing correlativas, both reported, while a
\* second student holds approvals the first one lacks
C19_Testigo ==
    /\ Termino("p1")
    /\ adm["p1"].res = UnmetPrerequisites
    /\ adm["p1"].faltantes = {"Y", "Z"}
    /\ correlativas["cmX"] = {"cmY", "cmZ"}
    /\ \E e \in EstudianteCarreras : e # adm["p1"].ec /\ <<e, "Y">> \in aprobadas

\* C20: a call for a section whose materia the student has already approved
\* is rejected and writes nothing; the rejection is never the one for unmet
\* correlativas, whether or not the correlativas are approved, and it is the
\* one for an approved materia whenever the call reaches validar_correlativas,
\* which it does when no earlier precondition fails
C20_MateriaYaAprobada ==
    [][\A p \in Llamadores :
          (/\ Retorna(p)
           /\ <<adm[p].ec, MateriaDe(adm[p].com)>> \in aprobadas)
              => /\ adm'[p].res \notin {OK, UnmetPrerequisites}
                 /\ adm[p].pc = "correlativas" => adm'[p].res = CourseAlreadyApproved
                 /\ PrimerRechazo(adm[p].ec, adm[p].ec_activa, adm[p].com) = CourseAlreadyApproved
                       => adm'[p].res = CourseAlreadyApproved
                 /\ UNCHANGED <<comision, inscripciones>>]_vars

\* a call was rejected because the materia is approved although a correlativa
\* of the materia is not
C20_Testigo ==
    /\ Termino("p1")
    /\ adm["p1"].res = CourseAlreadyApproved
    /\ <<adm["p1"].ec, MateriaDe(adm["p1"].com)>> \in aprobadas
    /\ SinAprobar(adm["p1"].ec, adm["p1"].com) # {}
    /\ inscripciones[<<adm["p1"].ec, adm["p1"].com>>] = <<>>

\* C21: a call that returns an Inscripcion has added one row for its pair and
\* raised the occupancy of its section by one; the rows already stored, the
\* other fields of the section, every other section, the MateriaAprobada rows
\* and the correlativas are as they were
C21_SoloFilaYCupo ==
    [][\A p \in Llamadores :
          (Retorna(p) /\ adm'[p].res = OK)
              => LET par == <<adm[p].ec, adm[p].com>>
                 IN  /\ Len(inscripciones'[par]) = Len(inscripciones[par]) + 1
                     /\ SubSeq(inscripciones'[par], 1, Len(inscripciones[par]))
                           = inscripciones[par]
                     /\ \A otro \in Pares \ {par} : inscripciones'[otro] = inscripciones[otro]
                     /\ comision' = [comision EXCEPT ![adm[p].com].capacidad_actual = @ + 1]
                     /\ UNCHANGED <<aprobadas, correlativas>>]_vars

\* a student was admitted while another section held a row, a MateriaAprobada
\* row existed and the materia had a correlativa
C21_Testigo ==
    /\ Termino("p1")
    /\ adm["p1"].res = OK
    /\ adm["p1"].pre.previas
    /\ aprobadas # {}
    /\ \E par \in Pares : par[2] # adm["p1"].com /\ inscripciones[par] # <<>>
    /\ \E c \in Comisiones : c # adm["p1"].com /\ comision[c].capacidad_actual > 0

C23_SoloAgrega ==
    /\ [](\A par \in Pares : \A i \in DOMAIN inscripciones[par] :
             inscripciones[par][i].activa <=> inscripciones[par][i].fecha_baja = SinFecha)
    /\ [][\A par \in Pares :
            /\ Len(inscripciones'[par]) >= Len(inscripciones[par])
            /\ \A i \in DOMAIN inscripciones[par] :
                  /\ inscripciones'[par][i].activa => inscripciones[par][i].activa
                  /\ inscripciones'[par][i].fecha_baja # inscripciones[par][i].fecha_baja
                        => ~inscripciones'[par][i].activa]_vars

\* the ledger holds a withdrawn, dated row next to the active, undated row of a
\* student admitted after that withdrawal
C23_Testigo ==
    /\ Termino("p1")
    /\ adm["p1"].res = OK
    /\ ExisteActivaEnComision(adm["p1"].ec, adm["p1"].com)
    /\ inscripciones[<<adm["p1"].ec, adm["p1"].com>>][1].fecha_baja = SinFecha
    /\ \E par \in Pares :
          /\ par[1] # adm["p1"].ec
          /\ inscripciones[par] # <<>>
          /\ ~inscripciones[par][1].activa
          /\ inscripciones[par][1].fecha_baja # SinFecha
          /\ \A w \in Instancias : baj[w].pc \in {"idle", "una", "dos"}

\* C24: in every state a student has at most one EstudianteCarrera row with
\* activa = True, also when two add forms for the student are submitted at the
\* same time
C24_UnaCarreraActiva ==
    \A s \in Estudiantes :
        Cardinality({k \in Carreras : estudiante_carreras[<<s, k>>] = Activa}) <= 1

\* C25: every step that changes the occupancy of a section is taken by a call
\* that holds the row lock of the section, and stores one more or one less
\* than the occupancy the table held, the value a read under the lock returns
C25_ContadorBajoBloqueo ==
    [][\A c \in Comisiones :
          comision'[c].capacidad_actual # comision[c].capacidad_actual
              => /\ bloqueo[c] # NADIE
                 /\ comision'[c].capacidad_actual \in
                       {comision[c].capacidad_actual + 1, comision[c].capacidad_actual - 1}]_vars

\* C26: in every state, however inscribir_estudiante and dar_baja calls
\* interleave, the active Inscripcion rows of a section are at most its
\* capacidad_maxima
C26_SinSobrecupoConBajas ==
    \A c \in Comisiones : Activas(c) <= comision[c].capacidad_maxima

\* C27: when two instances loaded from the same active row both run dar_baja,
\* the occupancy is decremented once: the write of the second instance leaves
\* the occupancy as the first instance's write left it
C27_UnaSolaResta ==
    [][\A w, v \in Instancias :
          (/\ w # v
           /\ baj[v].ec = baj[w].ec /\ baj[v].com = baj[w].com /\ baj[v].idx = baj[w].idx
           /\ baj[v].efectiva /\ baj[v].pc \in {"una", "dos"}
           /\ baj[w].pc = "restar" /\ baj'[w].pc = "una")
              => comision'[baj[w].com].capacidad_actual
                    = comision[baj[w].com].capacidad_actual]_vars

\* C28: a call returns an Inscripcion only if the student-career it was given
\* is active, the section is active and the carrera of the section's
\* CarreraMateria is the student's carrera; so every row in the table joins a
\* student and a section of the same carrera
C28_FilaValida ==
    /\ [](\A par \in Pares :
             inscripciones[par] # <<>>
                => CarreraDeCM(CarreraMateriaDe(par[2])) = CarreraDeEstudiante(par[1]))
    /\ [][\A p \in Llamadores :
            (Retorna(p) /\ adm'[p].res = OK)
               => /\ adm[p].ec_activa
                  /\ comision[adm[p].com].activa
                  /\ CarreraDeCM(CarreraMateriaDe(adm[p].com)) = CarreraDeEstudiante(adm[p].ec)
                  /\ Len(inscripciones'[<<adm[p].ec, adm[p].com>>])
                        = Len(inscripciones[<<adm[p].ec, adm[p].com>>]) + 1]_vars

\* every call of the run has been made, the last one was admitted, and the
\* student of the other carrera has no row
C28_Testigo ==
    /\ Termino("p1")
    /\ adm["p1"].res = OK
    /\ entorno.inscribir = 0
    /\ \A c \in Comisiones : inscripciones[<<"e4", c>>] = <<>>
    /\ \E par \in Pares : par # <<adm["p1"].ec, adm["p1"].com>> /\ inscripciones[par] # <<>>

\* every precondition of an admission but the free seat holds for the student
\* and the section, and the pair has no row
ElegibleSalvoCupo(e, act, c) ==
    /\ act
    /\ comision[c].activa
    /\ CarreraDeCM(CarreraMateriaDe(c)) = CarreraDeEstudiante(e)
    /\ inscripciones[<<e, c>>] = <<>>
    /\ ~ActivaEnOtra(e, c)
    /\ <<e, MateriaDe(c)>> \notin aprobadas
    /\ SinAprobar(e, c) = {}

BajaEnOtra(e, c) ==
    /\ \E c2 \in Comisiones \ {c} :
          /\ CuatrimestreDe(c2) = CuatrimestreDe(c)
          /\ MateriaDe(c2) = MateriaDe(c)
          /\ inscripciones[<<e, c2>>] # <<>>
          /\ ~ExisteActivaEnComision(e, c2)
    /\ ~ActivaEnOtra(e, c)

SpecAdmJusta ==
    /\ InitAdm
    /\ [][NextAdm]_vars
    /\ \A p \in Llamadores : WF_vars(PasoDe(p))

====
